---- MODULE Spec2Model ----
(***************************************************************************)
(* Price aggregation of the price comparison backend: price observations   *)
(* (RetailerProductPrice), the cached product statistics recomputed from   *)
(* them (Product.update_price_stats), the price history table, its         *)
(* retention sweep (clean_old_price_data) and its read endpoint            *)
(* (ProductPriceHistoryView), the scraper task (run_scraper) with the      *)
(* ScraperConfig and ScraperRun tables, the view counter                   *)
(* (increment_view_count) and the saved-product toggle                     *)
(* (SavedProductToggleView).                                               *)
(*                                                                         *)
(* Prices are integers in cents (DecimalField, decimal_places=2).          *)
(* A nullable field is <<>> (None) or <<v>>.                               *)
(***************************************************************************)
EXTENDS Integers, Sequences, FiniteSets, TLC

\* ------------------------------------------------------------------ bounds
MaxOps == 2          \* operations started in a concurrent run
MaxSerialOps == 3    \* operations started in a serial run
MaxHistory == 2      \* PriceHistory rows added by hand
MaxNow == 732        \* last day the clock reaches

MaxTriggers == 2     \* run_scraper tasks delivered
MaxRuns == 1         \* ScraperRun rows created

MaxViews == 3        \* increment_view_count tasks delivered

MaxPosts == 3        \* saved-product posts received

\* ------------------------------------------------------- program constants
RetentionDays == 365

\* ---------------------------------------------------------------- universe
Products == <<"ProductA", "ProductB">>
Retailers == <<"RetailerX", "RetailerY">>
Workers == {"w1", "w2"}
ProductSet == {Products[i] : i \in 1..Len(Products)}
RetailerSet == {Retailers[i] : i \in 1..Len(Retailers)}
SmallRetailers == {"ShopS"}
\* the (product, retailer) pairs that callers ingest for
Listings == {<<"ProductA", "RetailerX">>, <<"ProductA", "RetailerY">>,
             <<"ProductB", "RetailerX">>}
\* prices offered to an ingest, in cents
PriceInputs == {-1, 0, 1, 2}
\* currency = CharField(max_length=3, default='USD')
DefaultCurrency == "USD"
Currencies == {DefaultCurrency, "EUR"}
ClockSteps == {RetentionDays, RetentionDays + 1}

None == <<>>
Some(v) == <<v>>
Val(x) == x[1]

\* the rows of a product are kept retailer by retailer; the rows whose retailer
\* column is NULL are kept under NullRetailer
NullRetailer == "NULL"
RetailerKeys == Retailers \o <<NullRetailer>>
KeySet == ProductSet \X {RetailerKeys[i] : i \in 1..Len(RetailerKeys)}
RetailerKey(r) == IF r = None THEN NullRetailer ELSE Val(r)

VARIABLES
    obs,          \* RetailerProductPrice table: <<product, retailer key>> -> rows, in pk order
    products,     \* Product table: product -> [lowest_price, highest_price, average_price]
    history,      \* PriceHistory table: sequence of rows, in pk order
    history_seq,  \* PriceHistory's auto-increment id sequence: ids handed out so far
    now,          \* timezone.now(), in days
    db_rounding,  \* how the database backend stores a Decimal with more than 2 places
    pc,           \* worker -> position in the code it runs
    instance,     \* worker -> the RetailerProductPrice instance being saved (self)
    old_instance, \* worker -> the row read at models.py:239
    todo,         \* worker -> products whose update_price_stats is still to run
    prices,       \* worker -> the evaluated queryset of models.py:109
    nops,         \* operations started so far
    scraper_configs, \* ScraperConfig table: id -> [is_active, last_run_status, last_run_time]
    scraper_runs,    \* ScraperRun table: sequence of rows, in pk order
    scraper_task,    \* worker -> position in run_scraper, its argument and its local `config`
    error_log,       \* what logger.error has written: the config ids reported
    response,        \* the last response of the price history endpoint
    view_count,      \* Product table, view_count column: product -> count
    loaded,          \* worker -> the Product instances it holds: product -> view_count as read
    view_task,       \* worker -> position in increment_view_count, its argument and its local `product`
    incremented,     \* product -> increment_view_count tasks that returned "Incremented ..."
    saved_products,  \* SavedProduct table: set of rows [id, user, product]
    saved_seq,       \* SavedProduct's auto-increment id sequence: ids handed out so far
    toggle           \* handler -> position in SavedProductToggleView.post and its locals

vars == <<obs, products, history, history_seq, now, db_rounding, pc, instance, old_instance,
          todo, prices, nops, scraper_configs, scraper_runs, scraper_task, error_log, response,
          view_count, loaded, view_task, incremented, saved_products, saved_seq, toggle>>

scraperVars == <<scraper_configs, scraper_runs, scraper_task, error_log>>

workerVars == <<pc, instance, old_instance, todo, prices, loaded>>

viewVars == <<view_count, view_task, incremented>>

accountVars == <<saved_products, saved_seq, toggle>>

\* ------------------------------------------------------------ pure helpers
RECURSIVE SeqSum(_)
SeqSum(s) == IF s = <<>> THEN 0 ELSE Head(s) + SeqSum(Tail(s))

SeqMin(s) == CHOOSE x \in {s[i] : i \in 1..Len(s)} : \A j \in 1..Len(s) : x <= s[j]

SeqMax(s) == CHOOSE x \in {s[i] : i \in 1..Len(s)} : \A j \in 1..Len(s) : x >= s[j]

\* Decimal quantize to 2 places, ROUND_HALF_EVEN (django.db.backends.utils.format_number)
QuantizeHalfEven(total, n) ==
    LET q == total \div n
        r == total % n
    IN  IF 2 * r < n THEN q
        ELSE IF 2 * r > n THEN q + 1
        ELSE IF q % 2 = 0 THEN q ELSE q + 1

\* numeric(10,2) column rounding, ties away from zero
QuantizeHalfUp(total, n) ==
    LET q == total \div n
        r == total % n
    IN  IF 2 * r < n THEN q
        ELSE IF 2 * r > n THEN q + 1
        ELSE IF total >= 0 THEN q + 1 ELSE q

\* sum(prices) / len(prices) as stored in average_price
StoredAverage(total, n, mode) ==
    IF mode = "ROUND_HALF_EVEN" THEN QuantizeHalfEven(total, n)
    ELSE QuantizeHalfUp(total, n)

NoStats == [lowest_price |-> None, highest_price |-> None, average_price |-> None]

\* the average assigned without the division by len(prices)
PriceStatsSumAsAverage(ps, mode) ==
    [lowest_price |-> Some(SeqMin(ps)),
     highest_price |-> Some(SeqMax(ps)),
     average_price |-> Some(SeqSum(ps))]

\* the assignments of update_price_stats for a non-empty queryset result
PriceStats(ps, mode) ==
    [lowest_price |-> Some(SeqMin(ps)),
     highest_price |-> Some(SeqMax(ps)),
     average_price |-> Some(StoredAverage(SeqSum(ps), Len(ps), mode))]

\* all rows of one product, retailer by retailer
RECURSIVE RowsFrom(_, _, _)
RowsFrom(table, p, i) ==
    IF i > Len(RetailerKeys) THEN <<>>
    ELSE table[<<p, RetailerKeys[i]>>] \o RowsFrom(table, p, i + 1)

RetailerPrices(table, p) == RowsFrom(table, p, 1)

RECURSIVE PricesOf(_)
PricesOf(rows) == IF rows = <<>> THEN <<>> ELSE <<Head(rows).price>> \o PricesOf(Tail(rows))

\* self.retailer_prices.filter(is_available=True).values_list('price', flat=True)
AvailablePrices(table, p) ==
    PricesOf(SelectSeq(RetailerPrices(table, p), LAMBDA r : r.is_available))

\* the table without its unique constraints
UniqueViolationIgnored(table, p, r, s) == FALSE

\* unique_together ('product', 'retailer') and ('product', 'small_retailer'): an
\* INSERT is refused when a row with the same pair exists; a NULL equals nothing
UniqueViolation(table, p, r, s) ==
    \/ r # None /\ Len(table[<<p, Val(r)>>]) > 0
    \/ /\ s # None
       /\ \E i \in 1..Len(RetailerPrices(table, p)) :
              RetailerPrices(table, p)[i].small_retailer = s

NoInstance == [pk |-> None, product |-> None, retailer |-> None, small_retailer |-> None,
               price |-> None, currency |-> None, is_available |-> None,
               previous_price |-> None]

\* the positions, under the retailer key of r, of the rows of (p, r, s)
RowsOfSource(table, p, r, s) ==
    {i \in 1..Len(table[<<p, RetailerKey(r)>>]) :
        table[<<p, RetailerKey(r)>>][i].small_retailer = s}

FirstOf(S) == CHOOSE i \in S : \A j \in S : i <= j

\* ---------------------------------------------------------------- scrapers
\* ids of the ScraperConfig rows, and the config_id values run_scraper is called with
ConfigIds == {1, 2}
TriggerIds == ConfigIds \cup {3}

\* ScraperRun.STATUS_CHOICES
STATUS_CHOICES == {"success", "partial", "failed"}

NoTask == [pc |-> "idle", config_id |-> None, config |-> None]

\* ScraperConfig rows as created: is_active defaults to True, last_run_status
\* is blank, last_run_time is null
ScraperInit ==
    /\ scraper_configs = [c \in ConfigIds |->
            [is_active |-> TRUE, last_run_status |-> "", last_run_time |-> None]]
    /\ scraper_runs = <<>>
    /\ scraper_task = [w \in Workers |-> NoTask]
    /\ error_log = <<>>

\* ------------------------------------------------------------- view counts
NoViewTask == [pc |-> "idle", product_id |-> None, product |-> None, result |-> None]

\* view_count = PositiveIntegerField(default=0); no Product instance is held
ViewInit ==
    /\ view_count = [p \in ProductSet |-> 0]
    /\ loaded = [w \in Workers |-> <<>>]
    /\ view_task = [w \in Workers |-> NoViewTask]
    /\ incremented = [p \in ProductSet |-> 0]

\* models.py:115: self.save() writes every column of the instance, view_count
\* as the instance holds it
SavedViewCount(counts, p, held) == [counts EXCEPT ![p] = held[p]]

\* ----------------------------------------------------------- saved products
Handlers == {"h1", "h2"}
Users == {"UserU", "UserV"}

NoRequest == [pc |-> "idle", user |-> None, product_id |-> None, saved_product |-> None,
              created |-> None, status |-> None]

AccountInit ==
    /\ saved_products = {}
    /\ saved_seq = 0
    /\ toggle = [h \in Handlers |-> NoRequest]

\* -------------------------------------------------------------------- init
Init ==
    /\ obs = [k \in KeySet |-> <<>>]
    /\ products = [p \in ProductSet |-> NoStats]
    /\ history = <<>>
    /\ history_seq = 0
    /\ now = 0
    /\ db_rounding \in {"ROUND_HALF_EVEN", "ROUND_HALF_UP"}
    /\ pc = [w \in Workers |-> "idle"]
    /\ instance = [w \in Workers |-> NoInstance]
    /\ old_instance = [w \in Workers |-> None]
    /\ todo = [w \in Workers |-> <<>>]
    /\ prices = [w \in Workers |-> <<>>]
    /\ nops = 0
    /\ ScraperInit
    /\ response = None
    /\ ViewInit
    /\ AccountInit

\* ------------------------------------------------- RetailerProductPrice.save
\* The caller looks the listing up, sets the submitted fields on the instance it
\* found (or on a new one) and calls save().  The count of started operations is
\* kept by the specification that starts one (StartSave, SerialStartSave).
BeginSave(w, p, r, s, price, cur, avail) ==
    /\ pc[w] = "idle"
    /\ instance' = [instance EXCEPT ![w] =
            LET found == RowsOfSource(obs, p, r, s)
                fields == [product |-> Some(p), retailer |-> r, small_retailer |-> s,
                           price |-> Some(price), currency |-> Some(cur),
                           is_available |-> Some(avail)]
            IN  IF found = {}
                THEN [pk |-> None, previous_price |-> None] @@ fields
                ELSE [pk |-> Some(FirstOf(found)),
                      previous_price |->
                          obs[<<p, RetailerKey(r)>>][FirstOf(found)].previous_price] @@ fields]
    /\ loaded' = [loaded EXCEPT ![w] = [q \in {p} |-> view_count[q]]]
    /\ pc' = [pc EXCEPT ![w] = "track_change"]
    /\ UNCHANGED <<obs, products, history, history_seq, now, db_rounding, scraperVars, response, accountVars, viewVars,
                   old_instance, todo, prices>>

\* previous_price never recorded
TrackedPreviousNever(inst, old) == inst.previous_price

\* previous_price overwritten without the comparison of line 240
TrackedPreviousAlways(inst, old) == Some(old.price)

\* previous_price after lines 238-241
TrackedPrevious(inst, old) ==
    IF old.price # Val(inst.price) THEN Some(old.price) ELSE inst.previous_price

\* lines 238-241: read the stored row and keep its price when it differs
TrackPriceChange(w) ==
    /\ pc[w] = "track_change"
    /\ IF instance[w].pk # None
       THEN LET key == <<Val(instance[w].product), RetailerKey(instance[w].retailer)>>
                old == obs[key][Val(instance[w].pk)]
            IN  /\ old_instance' = [old_instance EXCEPT ![w] = Some(old)]
                /\ instance' = [instance EXCEPT ![w].previous_price =
                                    TrackedPrevious(instance[w], old)]
       ELSE UNCHANGED <<old_instance, instance>>
    /\ pc' = [pc EXCEPT ![w] = "super_save"]
    /\ UNCHANGED <<obs, products, history, history_seq, now, db_rounding, scraperVars, response, accountVars, viewVars,
                   loaded, todo, prices, nops>>

RowOf(inst) ==
    [small_retailer |-> inst.small_retailer, price |-> Val(inst.price),
     currency |-> Val(inst.currency), is_available |-> Val(inst.is_available),
     previous_price |-> inst.previous_price]

\* line 243: super().save() -- INSERT for a new instance, UPDATE otherwise
SuperSave(w) ==
    /\ pc[w] = "super_save"
    /\ LET inst == instance[w]
           p == Val(inst.product)
           key == <<p, RetailerKey(inst.retailer)>>
       IN  IF inst.pk = None
           THEN IF UniqueViolation(obs, p, inst.retailer, inst.small_retailer)
                THEN \* IntegrityError leaves save() before line 246
                     /\ pc' = [pc EXCEPT ![w] = "failed"]
                     /\ UNCHANGED <<obs, instance, todo>>
                ELSE /\ obs' = [obs EXCEPT ![key] = Append(@, RowOf(inst))]
                     /\ instance' = [instance EXCEPT ![w].pk = Some(Len(obs[key]) + 1)]
                     /\ todo' = [todo EXCEPT ![w] = <<p>>]
                     /\ pc' = [pc EXCEPT ![w] = "query_prices"]
           ELSE /\ obs' = [obs EXCEPT ![key][Val(inst.pk)] = RowOf(inst)]
                /\ todo' = [todo EXCEPT ![w] = <<p>>]
                /\ pc' = [pc EXCEPT ![w] = "query_prices"]
                /\ UNCHANGED instance
    /\ UNCHANGED <<products, history, history_seq, now, db_rounding, scraperVars, response, accountVars, viewVars,
                   loaded, old_instance, prices, nops>>

\* -------------------------------------------------- Product.update_price_stats
\* lines 109-111: the queryset is evaluated once, by `if prices:`
QueryPrices(w) ==
    /\ pc[w] = "query_prices"
    /\ LET ps == AvailablePrices(obs, Head(todo[w]))
       IN  IF ps # <<>>
           THEN /\ prices' = [prices EXCEPT ![w] = ps]
                /\ pc' = [pc EXCEPT ![w] = "save_product"]
                /\ UNCHANGED todo
           ELSE \* nothing is assigned and nothing is saved
                /\ prices' = [prices EXCEPT ![w] = <<>>]
                /\ todo' = [todo EXCEPT ![w] = Tail(@)]
                /\ pc' = [pc EXCEPT ![w] = IF Tail(todo[w]) = <<>> THEN "done"
                                           ELSE "query_prices"]
    /\ UNCHANGED <<obs, products, history, history_seq, now, db_rounding, scraperVars, response, accountVars, viewVars,
                   loaded, instance, old_instance, nops>>

\* lines 112-115: min, max, sum/len of the evaluated queryset, then self.save()
SaveProduct(w) ==
    /\ pc[w] = "save_product"
    /\ products' = [products EXCEPT ![Head(todo[w])] = PriceStats(prices[w], db_rounding)]
    /\ view_count' = SavedViewCount(view_count, Head(todo[w]), loaded[w])
    /\ todo' = [todo EXCEPT ![w] = Tail(@)]
    /\ pc' = [pc EXCEPT ![w] = IF Tail(todo[w]) = <<>> THEN "done" ELSE "query_prices"]
    /\ UNCHANGED <<obs, history, history_seq, now, db_rounding, scraperVars, response, accountVars, view_task, incremented,
                   loaded, instance, old_instance, prices, nops>>

\* the call returns (or the IntegrityError reaches the caller)
Return(w) ==
    /\ pc[w] \in {"done", "failed"}
    /\ pc' = [pc EXCEPT ![w] = "idle"]
    /\ instance' = [instance EXCEPT ![w] = NoInstance]
    /\ old_instance' = [old_instance EXCEPT ![w] = None]
    /\ todo' = [todo EXCEPT ![w] = <<>>]
    /\ prices' = [prices EXCEPT ![w] = <<>>]
    /\ loaded' = [loaded EXCEPT ![w] = <<>>]
    /\ UNCHANGED <<obs, products, history, history_seq, now, db_rounding, scraperVars, response, accountVars, viewVars, nops>>

\* ------------------------------------------------------ update_product_prices
\* tasks.py:7-12: update_price_stats for every product, in Meta.ordering
BeginUpdateProductPrices(w) ==
    /\ pc[w] = "idle"
    /\ todo' = [todo EXCEPT ![w] = Products]
    /\ loaded' = [loaded EXCEPT ![w] = view_count]
    /\ pc' = [pc EXCEPT ![w] = "query_prices"]
    /\ UNCHANGED <<obs, products, history, history_seq, now, db_rounding, scraperVars, response, accountVars, viewVars,
                   instance, old_instance, prices>>

\* ------------------------------------------------------------- PriceHistory
\* the admin form overwriting the listing's entries instead of adding one
AdminReplacePriceHistory(p, r, price) ==
    /\ history_seq < MaxHistory
    /\ history_seq' = history_seq + 1
    /\ history' = Append(SelectSeq(history, LAMBDA e : ~(e.product = p /\ e.retailer = r)),
                         [id |-> history_seq + 1, product |-> p, retailer |-> r,
                          price |-> price, timestamp |-> now])
    /\ UNCHANGED <<obs, products, now, db_rounding, scraperVars, response, accountVars, viewVars,
                   workerVars, nops>>

\* admin.py:61-62: a PriceHistory row added through the admin site;
\* timestamp is auto_now_add
AdminAddPriceHistory(p, r, price) ==
    /\ history_seq < MaxHistory
    /\ history_seq' = history_seq + 1
    /\ history' = Append(history, [id |-> history_seq + 1, product |-> p, retailer |-> r,
                                   price |-> price, timestamp |-> now])
    /\ UNCHANGED <<obs, products, now, db_rounding, scraperVars, response, accountVars, viewVars,
                   workerVars, nops>>

\* PriceHistory.objects.filter(timestamp__lt=one_year_ago)
OldRecords(hist, one_year_ago) == SelectSeq(hist, LAMBDA e : e.timestamp < one_year_ago)

\* the sweep with timestamp__lte in place of timestamp__lt
AfterDeleteInclusive(hist, one_year_ago) ==
    SelectSeq(hist, LAMBDA e : ~(e.timestamp <= one_year_ago))

\* what old_records.delete() leaves in the table
AfterDelete(hist, one_year_ago) == SelectSeq(hist, LAMBDA e : ~(e.timestamp < one_year_ago))

\* tasks.py:26-32
clean_old_price_data ==
    /\ history' = AfterDelete(history, now - RetentionDays)
    /\ UNCHANGED <<obs, products, history_seq, now, db_rounding, scraperVars, response, accountVars, viewVars,
                   workerVars, nops>>

\* time passes
Tick(d) ==
    /\ now + d <= MaxNow
    /\ now' = now + d
    /\ UNCHANGED <<obs, products, history, history_seq, db_rounding, scraperVars, response, accountVars, viewVars,
                   workerVars, nops>>

\* ------------------------------------------------------------------ run_scraper
catalogVars == <<obs, products, history, history_seq, now, db_rounding, workerVars, response,
                 accountVars, viewVars>>

\* the lookup without its is_active=True condition
ConfigLookupAnyStatus(configs, id) == IF id \in DOMAIN configs THEN Some(id) ELSE None

\* scrapers/tasks.py:18: ScraperConfig.objects.get(id=config_id, is_active=True);
\* None stands for DoesNotExist
ConfigLookup(configs, id) ==
    IF id \in DOMAIN configs /\ configs[id].is_active THEN Some(id) ELSE None

\* run_scraper.delay(config_id) is picked up by a worker
BeginRunScraper(w, id) ==
    /\ scraper_task[w].pc = "idle"
    /\ scraper_task' = [scraper_task EXCEPT ![w] =
            [pc |-> "get_config", config_id |-> Some(id), config |-> None]]
    /\ UNCHANGED <<catalogVars, scraper_configs, scraper_runs, error_log>>

\* lines 17-19: the lookup, and the except clause that catches DoesNotExist
GetConfig(w) ==
    /\ scraper_task[w].pc = "get_config"
    /\ LET found == ConfigLookup(scraper_configs, Val(scraper_task[w].config_id))
       IN  scraper_task' = [scraper_task EXCEPT
               ![w].config = found,
               ![w].pc = IF found = None THEN "log_error" ELSE "found"]
    /\ UNCHANGED <<catalogVars, scraper_configs, scraper_runs, error_log, nops>>

\* line 20: logger.error(...), then the function returns
LogError(w) ==
    /\ scraper_task[w].pc = "log_error"
    /\ error_log' = Append(error_log, Val(scraper_task[w].config_id))
    /\ scraper_task' = [scraper_task EXCEPT ![w].pc = "returned"]
    /\ UNCHANGED <<catalogVars, scraper_configs, scraper_runs, nops>>

\* the try block has nothing after the lookup: with `config` bound the
\* function body ends and run_scraper returns None
EndOfBody(w) ==
    /\ scraper_task[w].pc = "found"
    /\ scraper_task' = [scraper_task EXCEPT ![w].pc = "returned"]
    /\ UNCHANGED <<catalogVars, scraper_configs, scraper_runs, error_log, nops>>

\* the worker is free again
TaskReturn(w) ==
    /\ scraper_task[w].pc = "returned"
    /\ scraper_task' = [scraper_task EXCEPT ![w] = NoTask]
    /\ UNCHANGED <<catalogVars, scraper_configs, scraper_runs, error_log, nops>>

\* scrapers/admin.py:4-8: the operator switches a configuration on or off
AdminSetActive(c, active) ==
    /\ scraper_configs[c].is_active # active
    /\ scraper_configs' = [scraper_configs EXCEPT ![c].is_active = active]
    /\ UNCHANGED <<catalogVars, scraper_runs, scraper_task, error_log, nops>>

\* a ScraperRun whose status default is 'success'
NewScraperRunSuccess(id, c, t) ==
    [id |-> id, scraper_config |-> c, start_time |-> t, end_time |-> None,
     status |-> "success"]

\* ScraperRun(scraper_config=c) as the field declarations fill it:
\* start_time auto_now_add, end_time null, status default 'failed'
NewScraperRun(id, c, t) ==
    [id |-> id, scraper_config |-> c, start_time |-> t, end_time |-> None,
     status |-> "failed"]

\* a ScraperRun row is created for a configuration, every field but
\* scraper_config left to its declared default
CreateScraperRun(c) ==
    /\ Len(scraper_runs) < MaxRuns
    /\ scraper_runs' = Append(scraper_runs, NewScraperRun(Len(scraper_runs) + 1, c, now))
    /\ UNCHANGED <<catalogVars, scraper_configs, scraper_task, error_log, nops>>

\* scrapers/admin.py:10-14: the operator closes an open run, setting its
\* end_time and one of the STATUS_CHOICES
AdminFinalizeRun(i, status) ==
    /\ scraper_runs[i].end_time = None
    /\ scraper_runs' = [scraper_runs EXCEPT ![i].end_time = Some(now), ![i].status = status]
    /\ UNCHANGED <<catalogVars, scraper_configs, scraper_task, error_log, nops>>

\* ------------------------------------------------------ ProductPriceHistoryView
\* Product.slug: unique, slugify(name) unless given (models.py:69, 184-188)
SlugOf == [p \in ProductSet |-> IF p = "ProductA" THEN "producta" ELSE "productb"]
RequestSlugs == {SlugOf[p] : p \in ProductSet} \cup {"no-such-product"}

\* filter(product__slug=slug)
FilterBySlug(hist, slug) == SelectSeq(hist, LAMBDA e : SlugOf[e.product] = slug)

\* the orders in which a database may return rows
RowOrders(n) == {f \in [1..n -> 1..n] : \A i, j \in 1..n : f[i] = f[j] => i = j}

\* order_by('timestamp'): oldest first
OrderByTimestampAscending(rows) ==
    {[i \in 1..Len(rows) |-> rows[f[i]]] : f \in
        {g \in RowOrders(Len(rows)) :
            \A i, j \in 1..Len(rows) : i < j => rows[g[i]].timestamp <= rows[g[j]].timestamp}}

\* order_by('-timestamp'): newest first, rows of one timestamp in any order
OrderByTimestampDescending(rows) ==
    {[i \in 1..Len(rows) |-> rows[f[i]]] : f \in
        {g \in RowOrders(Len(rows)) :
            \A i, j \in 1..Len(rows) : i < j => rows[g[i]].timestamp >= rows[g[j]].timestamp}}

\* views.py:125-127: get_queryset, evaluated for the response
GetPriceHistory(slug) ==
    /\ \E results \in OrderByTimestampDescending(FilterBySlug(history, slug)) :
          response' = Some([slug |-> slug, results |-> results])
    /\ UNCHANGED <<obs, products, history, history_seq, now, db_rounding, workerVars, nops,
                   scraperVars, accountVars, viewVars>>

\* everything but the saved products and the count of started operations
catalogVars0 == <<obs, products, history, history_seq, now, db_rounding, workerVars, response,
                  scraperVars, viewVars>>

\* ---------------------------------------------------------- increment_view_count
\* the product_id values the task is called with; the last one has no row
ProductIds == ProductSet \cup {"NoSuchProduct"}

\* views.py:72: increment_view_count.delay(instance.id) is picked up by a worker
BeginIncrement(w, id) ==
    /\ view_task[w].pc = "idle"
    /\ view_task' = [view_task EXCEPT ![w] =
            [pc |-> "get_product", product_id |-> Some(id), product |-> None, result |-> None]]
    /\ UNCHANGED <<obs, products, history, history_seq, now, db_rounding, workerVars, response,
                   scraperVars, accountVars, view_count, incremented>>

\* tasks.py:18: Product.objects.get(id=product_id); lines 22-23 on DoesNotExist
GetProduct(w) ==
    /\ view_task[w].pc = "get_product"
    /\ LET id == Val(view_task[w].product_id)
       IN  IF id \in ProductSet
           THEN view_task' = [view_task EXCEPT ![w].product = Some(view_count[id]),
                                               ![w].pc = "save_view_count"]
           ELSE view_task' = [view_task EXCEPT ![w].result = Some("does not exist"),
                                               ![w].pc = "returned"]
    /\ UNCHANGED <<obs, products, history, history_seq, now, db_rounding, workerVars, response,
                   scraperVars, accountVars, view_count, incremented, nops>>

\* tasks.py:19-21: product.view_count += 1, save(update_fields=['view_count']),
\* and the message returned
SaveViewCount(w) ==
    /\ view_task[w].pc = "save_view_count"
    /\ LET id == Val(view_task[w].product_id)
       IN  /\ view_count' = [view_count EXCEPT ![id] = Val(view_task[w].product) + 1]
           /\ incremented' = [incremented EXCEPT ![id] = @ + 1]
    /\ view_task' = [view_task EXCEPT ![w].result = Some("incremented"), ![w].pc = "returned"]
    /\ UNCHANGED <<obs, products, history, history_seq, now, db_rounding, workerVars, response,
                   scraperVars, accountVars, nops>>

\* the worker is free again
ViewTaskReturn(w) ==
    /\ view_task[w].pc = "returned"
    /\ view_task' = [view_task EXCEPT ![w] = NoViewTask]
    /\ UNCHANGED <<obs, products, history, history_seq, now, db_rounding, workerVars, response,
                   scraperVars, accountVars, view_count, incremented, nops>>

\* ------------------------------------------------------ SavedProductToggleView
\* the product_id values of the URL; the last one has no Product row
ToggleProductIds == {"ProductA", "NoSuchProduct"}

\* the rows of one (user, product)
SavedRows(rows, u, p) == {r \in rows : r.user = u /\ r.product = p}

\* the table without its unique constraint
SavedUniqueViolationIgnored(rows, u, p) == FALSE

\* accounts/models.py:140: unique_together = ('user', 'product')
SavedUniqueViolation(rows, u, p) == SavedRows(rows, u, p) # {}

\* POST saved-products/<product_id>/ reaches a handler
BeginPost(h, u, id) ==
    /\ toggle[h].pc = "idle"
    /\ toggle' = [toggle EXCEPT ![h] =
            [pc |-> "get_object", user |-> Some(u), product_id |-> Some(id),
             saved_product |-> None, created |-> None, status |-> None]]
    /\ UNCHANGED <<catalogVars0, saved_products, saved_seq>>

\* views.py:63: get_object_or_404(Product, id=product_id)
GetObjectOr404(h) ==
    /\ toggle[h].pc = "get_object"
    /\ IF Val(toggle[h].product_id) \in ProductSet
       THEN toggle' = [toggle EXCEPT ![h].pc = "get"]
       ELSE toggle' = [toggle EXCEPT ![h].status = Some("404 Not Found"),
                                     ![h].pc = "responded"]
    /\ UNCHANGED <<catalogVars0, saved_products, saved_seq, nops>>

\* the lookup of get_or_create: the row, DoesNotExist, or MultipleObjectsReturned
LookupSaved(h, missing) ==
    LET found == SavedRows(saved_products, Val(toggle[h].user), Val(toggle[h].product_id))
    IN  IF found = {} THEN missing
        ELSE IF Cardinality(found) = 1
        THEN toggle' = [toggle EXCEPT
                 ![h].saved_product = Some((CHOOSE r \in found : TRUE).id),
                 ![h].created = Some(FALSE),
                 ![h].pc = "delete"]
        ELSE toggle' = [toggle EXCEPT ![h].status = Some("500 Internal Server Error"),
                                      ![h].pc = "responded"]

\* views.py:64-67: get_or_create tries get() first
GetSaved(h) ==
    /\ toggle[h].pc = "get"
    /\ LookupSaved(h, toggle' = [toggle EXCEPT ![h].pc = "create"])
    /\ UNCHANGED <<catalogVars0, saved_products, saved_seq, nops>>

\* get_or_create then INSERTs; an IntegrityError sends it back to get().
\* views.py:74-77: a created row is answered with 201
CreateSaved(h) ==
    /\ toggle[h].pc = "create"
    /\ LET u == Val(toggle[h].user)
           p == Val(toggle[h].product_id)
       IN  IF SavedUniqueViolation(saved_products, u, p)
           THEN /\ toggle' = [toggle EXCEPT ![h].pc = "get_again"]
                /\ UNCHANGED <<saved_products, saved_seq>>
           ELSE /\ saved_products' = saved_products \cup
                       {[id |-> saved_seq + 1, user |-> u, product |-> p]}
                /\ saved_seq' = saved_seq + 1
                /\ toggle' = [toggle EXCEPT
                       ![h].saved_product = Some(saved_seq + 1),
                       ![h].created = Some(TRUE),
                       ![h].status = Some("201 Created"),
                       ![h].pc = "responded"]
    /\ UNCHANGED <<catalogVars0, nops>>

\* get_or_create after the IntegrityError: get() again, and the error is
\* raised again when the row is gone
GetSavedAgain(h) ==
    /\ toggle[h].pc = "get_again"
    /\ LookupSaved(h, toggle' = [toggle EXCEPT
                          ![h].status = Some("500 Internal Server Error"),
                          ![h].pc = "responded"])
    /\ UNCHANGED <<catalogVars0, saved_products, saved_seq, nops>>

\* views.py:69-72: not created, so saved_product.delete() and 200
DeleteSaved(h) ==
    /\ toggle[h].pc = "delete"
    /\ saved_products' = {r \in saved_products : r.id # Val(toggle[h].saved_product)}
    /\ toggle' = [toggle EXCEPT ![h].status = Some("200 OK"), ![h].pc = "responded"]
    /\ UNCHANGED <<catalogVars0, saved_seq, nops>>

\* the response is sent and the handler is free again
Respond(h) ==
    /\ toggle[h].pc = "responded"
    /\ toggle' = [toggle EXCEPT ![h] = NoRequest]
    /\ UNCHANGED <<catalogVars0, saved_products, saved_seq, nops>>

\* ----------------------------------------------------------- specifications
AllIdle == \A w \in Workers : pc[w] = "idle"

StartSave ==
    \E w \in Workers, l \in Listings, price \in PriceInputs, avail \in BOOLEAN :
        /\ nops < MaxOps
        /\ BeginSave(w, l[1], Some(l[2]), None, price, DefaultCurrency, avail)
        /\ nops' = nops + 1

StartTask ==
    \E w \in Workers :
        /\ nops < MaxOps
        /\ BeginUpdateProductPrices(w)
        /\ nops' = nops + 1

Step ==
    \E w \in Workers :
        \/ TrackPriceChange(w)
        \/ SuperSave(w)
        \/ QueryPrices(w)
        \/ SaveProduct(w)
        \/ Return(w)

Next == StartSave \/ StartTask \/ Step

Spec == Init /\ [][Next]_vars

\* one operation at a time: no concurrent writer
SerialStartSave ==
    \E l \in Listings, price \in PriceInputs, avail \in BOOLEAN :
        /\ AllIdle
        /\ nops < MaxSerialOps
        /\ BeginSave("w1", l[1], Some(l[2]), None, price, DefaultCurrency, avail)
        /\ nops' = nops + 1

SerialStartTask ==
    /\ AllIdle
    /\ nops < MaxSerialOps
    /\ BeginUpdateProductPrices("w1")
    /\ nops' = nops + 1

SerialNext == SerialStartSave \/ SerialStartTask \/ Step

SerialSpec == Init /\ [][SerialNext]_vars

\* the source references a caller may submit: retailer and small_retailer are
\* both nullable foreign keys (models.py:197-198)
SourceRefs == {<<r, s>> : r \in {None, Some("RetailerX")},
                          s \in {None} \cup {Some(x) : x \in SmallRetailers}}
ListedPrices == {x \in PriceInputs : x > 0}

\* serial ingests for ProductA from every combination of source references
SourceStartSave ==
    \E src \in SourceRefs, price \in ListedPrices :
        /\ AllIdle
        /\ nops < MaxSerialOps
        /\ BeginSave("w1", "ProductA", src[1], src[2], price, DefaultCurrency, TRUE)
        /\ nops' = nops + 1

SourceNext == SourceStartSave \/ Step

SourceSpec == Init /\ [][SourceNext]_vars

\* ingests and reconciliations over a store that also holds PriceHistory rows
HistoryListings == {l \in Listings : l[1] = "ProductA"}

HistoryStartSave ==
    \E price \in ListedPrices :
        /\ AllIdle
        /\ nops < MaxOps
        /\ BeginSave("w1", "ProductA", Some("RetailerX"), None, price, DefaultCurrency, TRUE)
        /\ nops' = nops + 1

HistoryStartTask ==
    /\ AllIdle
    /\ nops < MaxOps
    /\ BeginUpdateProductPrices("w1")
    /\ nops' = nops + 1

HistoryAdd ==
    \E l \in HistoryListings, price \in ListedPrices :
        AdminAddPriceHistory(l[1], l[2], price)

HistoryPurge == clean_old_price_data

HistoryAdvance == \E d \in ClockSteps : Tick(d)

HistoryNext ==
    \/ HistoryStartSave
    \/ HistoryStartTask
    \/ Step
    \/ HistoryAdd
    \/ HistoryPurge
    \/ HistoryAdvance

HistorySpec == Init /\ [][HistoryNext]_vars

\* serial ingests for ProductA in more than one currency, and reconciliations
CurrencyStartSave ==
    \E l \in HistoryListings, price \in ListedPrices, cur \in Currencies, avail \in BOOLEAN :
        /\ AllIdle
        /\ nops < MaxSerialOps
        /\ BeginSave("w1", l[1], Some(l[2]), None, price, cur, avail)
        /\ nops' = nops + 1

CurrencyNext == CurrencyStartSave \/ SerialStartTask \/ Step

CurrencySpec == Init /\ [][CurrencyNext]_vars

\* scraper runs: triggers on two workers, the operator's edits of the
\* configurations and of the run records
StartRunScraper ==
    \E w \in Workers, id \in TriggerIds :
        /\ nops < MaxTriggers
        /\ BeginRunScraper(w, id)
        /\ nops' = nops + 1

ScraperStep ==
    \E w \in Workers :
        \/ GetConfig(w)
        \/ LogError(w)
        \/ EndOfBody(w)
        \/ TaskReturn(w)

SwitchConfig == \E c \in ConfigIds, active \in BOOLEAN : AdminSetActive(c, active)

OpenRun == \E c \in ConfigIds : CreateScraperRun(c)

CloseRun == \E i \in 1..Len(scraper_runs), status \in STATUS_CHOICES : AdminFinalizeRun(i, status)

ScraperNext == StartRunScraper \/ ScraperStep \/ SwitchConfig \/ OpenRun \/ CloseRun

ScraperSpec == Init /\ [][ScraperNext]_vars

\* the price history endpoint over a table that grows, ages and is swept
ViewListings == {l \in Listings : l[2] = "RetailerX"}

ViewAdd ==
    \E l \in ViewListings, price \in ListedPrices : AdminAddPriceHistory(l[1], l[2], price)

ViewAdvance == \E d \in ClockSteps : Tick(d)

ViewSweep == clean_old_price_data

ViewRequest == \E slug \in RequestSlugs : GetPriceHistory(slug)

ViewNext == ViewAdd \/ ViewAdvance \/ ViewSweep \/ ViewRequest

ViewSpec == Init /\ [][ViewNext]_vars

\* the same runs with every worker that can take a step of run_scraper
\* eventually taking it; nothing obliges the operator to edit a run record
ScraperFairSpec == ScraperSpec /\ WF_vars(ScraperStep)

\* product views counted by two workers
StartIncrement ==
    \E w \in Workers, id \in ProductIds :
        /\ nops < MaxViews
        /\ BeginIncrement(w, id)
        /\ nops' = nops + 1

IncrementStep ==
    \E w \in Workers :
        \/ GetProduct(w)
        \/ SaveViewCount(w)
        \/ ViewTaskReturn(w)

ViewCountNext == StartIncrement \/ IncrementStep

ViewCountSpec == Init /\ [][ViewCountNext]_vars

\* recomputes of ProductA on worker w1 while worker w2 counts views of it
RecomputeStartSave ==
    \E price \in ListedPrices :
        /\ pc["w1"] = "idle"
        /\ nops < MaxOps
        /\ BeginSave("w1", "ProductA", Some("RetailerX"), None, price, DefaultCurrency, TRUE)
        /\ nops' = nops + 1

RecomputeStartTask ==
    /\ pc["w1"] = "idle"
    /\ nops < MaxOps
    /\ BeginUpdateProductPrices("w1")
    /\ nops' = nops + 1

RecomputeStartIncrement ==
    /\ nops < MaxOps
    /\ BeginIncrement("w2", "ProductA")
    /\ nops' = nops + 1

RecomputeNext ==
    \/ RecomputeStartSave
    \/ RecomputeStartTask
    \/ RecomputeStartIncrement
    \/ Step
    \/ IncrementStep

RecomputeSpec == Init /\ [][RecomputeNext]_vars

\* saved-product posts on two handlers, over a table that is empty or already
\* holds UserU's saved ProductA
SeededSaved == {[id |-> 1, user |-> "UserU", product |-> "ProductA"]}

ToggleInit ==
    /\ obs = [k \in KeySet |-> <<>>]
    /\ products = [p \in ProductSet |-> NoStats]
    /\ history = <<>>
    /\ history_seq = 0
    /\ now = 0
    /\ db_rounding \in {"ROUND_HALF_EVEN", "ROUND_HALF_UP"}
    /\ pc = [w \in Workers |-> "idle"]
    /\ instance = [w \in Workers |-> NoInstance]
    /\ old_instance = [w \in Workers |-> None]
    /\ todo = [w \in Workers |-> <<>>]
    /\ prices = [w \in Workers |-> <<>>]
    /\ nops = 0
    /\ ScraperInit
    /\ response = None
    /\ ViewInit
    /\ saved_products \in {{}, SeededSaved}
    /\ saved_seq = Cardinality(saved_products)
    /\ toggle = [h \in Handlers |-> NoRequest]

StartPost ==
    \E h \in Handlers, u \in Users, id \in ToggleProductIds :
        /\ nops < MaxPosts
        /\ BeginPost(h, u, id)
        /\ nops' = nops + 1

PostStep ==
    \E h \in Handlers :
        \/ GetObjectOr404(h)
        \/ GetSaved(h)
        \/ CreateSaved(h)
        \/ GetSavedAgain(h)
        \/ DeleteSaved(h)
        \/ Respond(h)

ToggleNext == StartPost \/ PostStep

ToggleSpec == ToggleInit /\ [][ToggleNext]_vars

\* the retention sweep over a catalogue that already holds two observations of
\* ProductA (RetailerX at 2, RetailerY at 1) and the statistics saved for them
SeededObs ==
    [k \in KeySet |->
        IF k = <<"ProductA", "RetailerX">>
        THEN <<[small_retailer |-> None, price |-> 2, currency |-> DefaultCurrency,
                is_available |-> TRUE, previous_price |-> None]>>
        ELSE IF k = <<"ProductA", "RetailerY">>
        THEN <<[small_retailer |-> None, price |-> 1, currency |-> DefaultCurrency,
                is_available |-> TRUE, previous_price |-> None]>>
        ELSE <<>>]

RetentionInit ==
    /\ db_rounding \in {"ROUND_HALF_EVEN", "ROUND_HALF_UP"}
    /\ obs = SeededObs
    /\ products = [p \in ProductSet |->
                      IF p = "ProductA"
                      THEN PriceStats(AvailablePrices(SeededObs, p), db_rounding)
                      ELSE NoStats]
    /\ history = <<>>
    /\ history_seq = 0
    /\ now = 0
    /\ pc = [w \in Workers |-> "idle"]
    /\ instance = [w \in Workers |-> NoInstance]
    /\ old_instance = [w \in Workers |-> None]
    /\ todo = [w \in Workers |-> <<>>]
    /\ prices = [w \in Workers |-> <<>>]
    /\ nops = 0
    /\ ScraperInit
    /\ response = None
    /\ ViewInit
    /\ AccountInit

AddHistory ==
    \E l \in Listings, price \in PriceInputs : AdminAddPriceHistory(l[1], l[2], price)

Sweep == clean_old_price_data

Advance == \E d \in ClockSteps : Tick(d)

RetentionNext == AddHistory \/ Sweep \/ Advance

RetentionSpec == RetentionInit /\ [][RetentionNext]_vars

\* ==================================================================== claims
Abs(x) == IF x < 0 THEN -x ELSE x

\* the listing a worker's instance belongs to, and the row stored for it
KeyOf(w) == <<Val(instance[w].product), RetailerKey(instance[w].retailer)>>
StoredRow(w) == obs[KeyOf(w)][Val(instance[w].pk)]

\* a worker whose RetailerProductPrice.save() has run to its end
SaveDone(w) == pc[w] = "done" /\ instance[w].pk # None

\* the products whose update_price_stats a finished worker has run
Reconciled(w) ==
    IF instance[w].pk # None THEN {Val(instance[w].product)} ELSE ProductSet

\* avg is the mean of ps rounded to a whole cent (either way on a tie)
IsRoundedMean(avg, ps) == 2 * Abs(avg * Len(ps) - SeqSum(ps)) <= Len(ps)

\* stats are the minimum, maximum and mean of the prices ps; null for no price
StatsOfPrices(stats, ps) ==
    IF ps = <<>> THEN stats = NoStats
    ELSE /\ stats.lowest_price = Some(SeqMin(ps))
         /\ stats.highest_price = Some(SeqMax(ps))
         /\ stats.average_price # None
         /\ IsRoundedMean(Val(stats.average_price), ps)

NonNegative(x) == x = None \/ Val(x) >= 0

NoNegativeRow ==
    \A k \in KeySet :
        \A i \in 1..Len(obs[k]) : obs[k][i].price >= 0

\* no negative price is stored, cached, remembered or being written
ValidPrices ==
    /\ NoNegativeRow
    /\ \A k \in KeySet :
          \A i \in 1..Len(obs[k]) : NonNegative(obs[k][i].previous_price)
    /\ \A p \in ProductSet : NonNegative(products[p].lowest_price)
    /\ \A w \in Workers : NonNegative(instance[w].price)

\* C1: after an observation write with no concurrent writer, the owning
\* product's lowest, highest and average price are the minimum, maximum and
\* mean of the prices of exactly its available observations.
C1_StatsOfAvailable ==
    \A w \in Workers :
        (SaveDone(w) /\ ValidPrices) =>
            StatsOfPrices(products[Val(instance[w].product)],
                          AvailablePrices(obs, Val(instance[w].product)))

\* C2: after a reconciliation pass on a product with zero available
\* observations its three cached prices are null.
C2_NullWhenNoneAvailable ==
    \A w \in Workers :
        (pc[w] = "done" /\ ValidPrices) =>
            \A p \in Reconciled(w) :
                AvailablePrices(obs, p) = <<>> => products[p] = NoStats

\* C3: after a reconciliation pass on a product with at least one available
\* observation, lowest_price <= average_price <= highest_price; and the cached
\* prices of every product are either all null or so ordered.
C3_LowestAverageHighest ==
    /\ \A p \in ProductSet :
          \/ products[p] = NoStats
          \/ /\ products[p].lowest_price # None
             /\ products[p].average_price # None
             /\ products[p].highest_price # None
             /\ Val(products[p].lowest_price) <= Val(products[p].average_price)
             /\ Val(products[p].average_price) <= Val(products[p].highest_price)
    /\ \A w \in Workers :
          pc[w] = "done" =>
              \A p \in Reconciled(w) :
                  AvailablePrices(obs, p) # <<>> => products[p] # NoStats

\* a pass has just saved statistics over two different available prices
C3_Witness ==
    \E w \in Workers :
        /\ pc[w] = "done"
        /\ \E p \in Reconciled(w) :
              /\ Len(AvailablePrices(obs, p)) = 2
              /\ Val(products[p].lowest_price) < Val(products[p].highest_price)

\* C4 as stated: after each upsert previous_price is the price the observation
\* held immediately before that upsert, and null after the first upsert.
C4_PreviousIsPriorPrice ==
    \A w \in Workers :
        (SaveDone(w) /\ ValidPrices) =>
            StoredRow(w).previous_price =
                IF old_instance[w] = None THEN None
                ELSE Some(Val(old_instance[w]).price)

\* C4 amended: previous_price is null after the first upsert; an upsert that
\* changes the price sets it to the price held immediately before; an upsert
\* that keeps the price leaves previous_price as it was.
C4_PreviousTracksChange ==
    \A w \in Workers :
        SaveDone(w) =>
            StoredRow(w).previous_price =
                IF old_instance[w] = None THEN None
                ELSE IF Val(old_instance[w]).price # StoredRow(w).price
                     THEN Some(Val(old_instance[w]).price)
                     ELSE Val(old_instance[w]).previous_price

\* the third upsert of a listing repeats the price of the second, which had
\* changed the price of the first
C4_Witness ==
    \E w \in Workers :
        /\ SaveDone(w)
        /\ old_instance[w] # None
        /\ Val(old_instance[w]).price = StoredRow(w).price
        /\ StoredRow(w).previous_price # None

\* C5: the store never holds two rows for one (product, retailer); once an
\* upsert has written, exactly one row is stored for its listing, and an upsert
\* of a listing that has a row replaces that row.
C5_OneRowPerListing ==
    /\ [](\A k \in ProductSet \X RetailerSet : Len(obs[k]) <= 1)
    /\ [](\A w \in Workers :
            pc[w] \in {"query_prices", "save_product", "done", "failed"}
                /\ instance[w].product # None
            => Len(obs[KeyOf(w)]) = 1)
    /\ [][\A w \in Workers :
            (pc[w] = "super_save" /\ pc'[w] = "query_prices" /\ old_instance[w] # None)
            => obs'[KeyOf(w)] = <<RowOf(instance[w])>>]_vars

\* two racing upserts of a new listing: one has inserted the row, the other's
\* insert was refused
C5_Witness ==
    \E w, v \in Workers :
        /\ pc[w] = "failed"
        /\ pc[v] = "done"
        /\ KeyOf(w) = KeyOf(v)
        /\ Len(obs[KeyOf(w)]) = 1

\* C6: an upsert that creates the observation or changes its price appends
\* one PriceHistory row (product, retailer, new price, timestamp = now).
C6_HistoryAppendedOnChange ==
    \A w \in Workers :
        (SaveDone(w) /\ ValidPrices
                     /\ (old_instance[w] = None
                         \/ Val(old_instance[w]).price # Val(instance[w].price)))
        => \E i \in 1..Len(history) :
              /\ history[i].product = Val(instance[w].product)
              /\ history[i].retailer = Val(instance[w].retailer)
              /\ history[i].price = Val(instance[w].price)
              /\ history[i].timestamp = now

\* C7: once concurrent ingests for distinct retailers of one product have all
\* completed, the product's cached prices are the statistics of all of its
\* available prices.
C7_NoLostUpdate ==
    \A w, v \in Workers :
        (/\ w # v
         /\ SaveDone(w) /\ SaveDone(v)
         /\ instance[w].product = instance[v].product
         /\ instance[w].retailer # instance[v].retailer
         /\ Val(instance[w].is_available) /\ Val(instance[v].is_available)
         /\ ValidPrices)
        => products[Val(instance[w].product)] =
              PriceStats(AvailablePrices(obs, Val(instance[w].product)), db_rounding)

\* the upsert a worker runs resubmits the stored price and availability
Reingest(w) ==
    /\ old_instance[w] # None
    /\ Val(old_instance[w]).price = Val(instance[w].price)
    /\ Val(old_instance[w]).is_available = Val(instance[w].is_available)
    /\ Val(old_instance[w]).currency = Val(instance[w].currency)

C10_NegativePriceRejected ==
    /\ NoNegativeRow
    /\ \A w \in Workers :
          (instance[w].price # None /\ Val(instance[w].price) < 0)
          => pc[w] \notin {"query_prices", "save_product", "done"}

\* the retailer column of the rows kept under key k is set
HasRetailer(k) == k[2] # NullRetailer

\* C11: every stored price observation has exactly one of retailer and
\* small_retailer set; a write with both or with neither never reaches the
\* table.
C11_ExactlyOneSource ==
    \A k \in KeySet :
        \A i \in 1..Len(obs[k]) :
            HasRetailer(k) # (obs[k][i].small_retailer # None)

\* the number of PriceHistory rows of one (product, retailer)
HistoryCount(hist, p, r) ==
    Cardinality({i \in 1..Len(hist) : hist[i].product = p /\ hist[i].retailer = r})

\* every entry of hist is still in hist2 with its id, price and timestamp
EntriesKept(hist, hist2) ==
    \A i \in 1..Len(hist) : \E j \in 1..Len(hist2) : hist2[j] = hist[i]

AvailableCurrencies(table, p) ==
    {RetailerPrices(table, p)[i].currency :
        i \in {j \in 1..Len(RetailerPrices(table, p)) : RetailerPrices(table, p)[j].is_available}}

\* C13: while the available observations of a product carry more than one
\* currency, no step changes its cached lowest, highest or average price:
\* recomputation is skipped and the last-known-good values stay.
C13_MixedCurrenciesSkipped ==
    [][\A p \in ProductSet :
          Cardinality(AvailableCurrencies(obs, p)) > 1 => products'[p] = products[p]]_vars

\* another attempt for configuration c is under way: a ScraperRun of c is open,
\* or another worker is past the lookup of run_scraper for c
RunInProgress(c, w) ==
    \/ \E i \in 1..Len(scraper_runs) :
          scraper_runs[i].scraper_config = c /\ scraper_runs[i].end_time = None
    \/ \E v \in Workers \ {w} :
          scraper_task[v].pc = "found" /\ scraper_task[v].config_id = Some(c)

\* C14: at most one attempt runs per scraper source: a run_scraper issued for a
\* source that already has a run in progress is rejected and never gets past
\* its lookup to start a second run.
C14_SecondTriggerRejected ==
    [][\A w \in Workers :
          (/\ scraper_task[w].pc = "get_config"
           /\ RunInProgress(Val(scraper_task[w].config_id), w))
          => scraper_task'[w].pc # "found"]_vars

\* C15: a run whose every fetch fails is finalized: once run_scraper has
\* returned for a configuration it found, a ScraperRun of that configuration
\* is recorded with status failed and its end_time set.
C15_FailedRunFinalized ==
    \A w \in Workers :
        (scraper_task[w].pc = "returned" /\ scraper_task[w].config # None)
        => \E i \in 1..Len(scraper_runs) :
              /\ scraper_runs[i].scraper_config = Val(scraper_task[w].config)
              /\ scraper_runs[i].status = "failed"
              /\ scraper_runs[i].end_time # None

\* the configuration run_scraper was called for exists and is active
Eligible(configs, id) == id \in DOMAIN configs /\ configs[id].is_active

\* C16: a run_scraper for a source id that does not exist or is not active
\* goes from its lookup to the error report and from there to a normal return;
\* neither step creates a ScraperRun or changes any ScraperConfig field, and
\* the report names the id.
C16_IneligibleTriggerStartsNoRun ==
    [][\A w \in Workers :
          /\ (/\ scraper_task[w].pc = "get_config"
              /\ scraper_task'[w] # scraper_task[w]
              /\ ~Eligible(scraper_configs, Val(scraper_task[w].config_id)))
             => /\ scraper_task'[w].pc = "log_error"
                /\ scraper_task'[w].config = None
                /\ scraper_runs' = scraper_runs
                /\ scraper_configs' = scraper_configs
          /\ (scraper_task[w].pc = "log_error" /\ scraper_task'[w] # scraper_task[w])
             => /\ scraper_task'[w].pc = "returned"
                /\ error_log' = Append(error_log, Val(scraper_task[w].config_id))
                /\ scraper_runs' = scraper_runs
                /\ scraper_configs' = scraper_configs]_vars

\* run_scraper has returned after reporting a configuration that exists but
\* is switched off, and the log also holds an id that has no row
C16_Witness ==
    /\ \E w \in Workers :
          /\ scraper_task[w].pc = "returned"
          /\ scraper_task[w].config = None
          /\ Val(scraper_task[w].config_id) \in DOMAIN scraper_configs
          /\ ~scraper_configs[Val(scraper_task[w].config_id)].is_active
    /\ \E i \in 1..Len(error_log) : error_log[i] \notin DOMAIN scraper_configs
    /\ scraper_runs = <<>>

\* C19: a ScraperRun is created with status failed and end_time null, and as
\* long as its end_time is null (it has not been finalized) its status is
\* failed: whatever stops before finalization leaves no run recorded as success.
C19_OpenRunIsFailed ==
    /\ [](\A i \in 1..Len(scraper_runs) :
             scraper_runs[i].end_time = None => scraper_runs[i].status = "failed")
    /\ [][Len(scraper_runs') > Len(scraper_runs)
          => /\ scraper_runs'[Len(scraper_runs')].status = "failed"
             /\ scraper_runs'[Len(scraper_runs')].end_time = None]_vars

\* a ScraperRun is open while run_scraper for its configuration is past the
\* lookup
C19_Witness ==
    \E i \in 1..Len(scraper_runs), w \in Workers :
        /\ scraper_runs[i].end_time = None
        /\ scraper_task[w].pc \in {"found", "returned"}
        /\ scraper_task[w].config = Some(scraper_runs[i].scraper_config)

\* C17: the price history returned for a product holds every PriceHistory row
\* of that product once, no row of another product, and is ordered by
\* non-increasing timestamp.
C17_HistoryOfProductNewestFirst ==
    [][response' # response =>
          LET slug == Val(response').slug
              results == Val(response').results
          IN  /\ \A i \in 1..Len(results) :
                    /\ SlugOf[results[i].product] = slug
                    /\ \E k \in 1..Len(history) : history[k] = results[i]
              /\ \A k \in 1..Len(history) :
                    SlugOf[history[k].product] = slug
                    => \E i \in 1..Len(results) : results[i] = history[k]
              /\ \A i, j \in 1..Len(results) :
                    /\ i # j => results[i].id # results[j].id
                    /\ i < j => results[i].timestamp >= results[j].timestamp]_vars

\* a response lists the one row of its product while the table also holds a
\* newer row of another product
C17_Witness ==
    /\ response # None
    /\ Len(Val(response).results) = 1
    /\ \E k \in 1..Len(history) :
          /\ SlugOf[history[k].product] # Val(response).slug
          /\ history[k].timestamp > Val(response).results[1].timestamp
    /\ \E k \in 1..Len(history) : history[k] = Val(response).results[1]

\* C18: the observation write and the recompute it triggers are one step: in
\* every state a reader can see, the cached prices of a product that has
\* available observations are the statistics of exactly the observations
\* stored in that state.
C18_WriteAndRecomputeAtomic ==
    ValidPrices =>
        \A p \in ProductSet :
            AvailablePrices(obs, p) # <<>>
            => StatsOfPrices(products[p], AvailablePrices(obs, p))

\* the mean of ps in cents, a half cent rounded up
MeanHalfUp(ps) == (2 * SeqSum(ps) + Len(ps)) \div (2 * Len(ps))

\* C20: after a reconciliation pass on a product with available observations
\* the cached average_price is the mean of their prices rounded to a whole
\* cent, a mean ending in exactly half a cent rounded up.
C20_AverageRoundsHalfUp ==
    \A w \in Workers :
        (pc[w] = "done" /\ ValidPrices) =>
            \A p \in Reconciled(w) :
                AvailablePrices(obs, p) # <<>>
                => products[p].average_price = Some(MeanHalfUp(AvailablePrices(obs, p)))

\* C21: every ScraperRun that is opened is eventually finalized: no run keeps
\* a null end_time forever.
C21_OpenRunEventuallyFinalized ==
    \A i \in 1..MaxRuns :
        (Len(scraper_runs) >= i /\ scraper_runs[i].end_time = None)
        ~> (Len(scraper_runs) >= i /\ scraper_runs[i].end_time # None)

\* C22: once every increment_view_count task has completed, the view_count of
\* each product is higher than at the start (zero) by exactly the number of
\* tasks that ran for it, whatever the interleaving; a task for a product id
\* that has no row ends with a message.
C22_EveryViewCounted ==
    /\ (\A w \in Workers : view_task[w].pc = "idle")
       => \A p \in ProductSet : view_count[p] = incremented[p]
    /\ \A w \in Workers :
          (view_task[w].pc = "returned" /\ Val(view_task[w].product_id) \notin ProductSet)
          => view_task[w].result = Some("does not exist")

\* C23: the save that ends a stat recompute leaves the view_count of every
\* product as it is in the store, also when a view was counted after the
\* recompute read the product.
C23_RecomputeKeepsViewCount ==
    [][(\E w \in Workers : pc[w] = "save_product" /\ pc'[w] # "save_product")
       => view_count' = view_count]_vars

\* the user and product of the request a handler serves
PairOf(h) == <<Val(toggle[h].user), Val(toggle[h].product_id)>>

SavedCount(rows, pair) == Cardinality(SavedRows(rows, pair[1], pair[2]))

\* the rows that do not belong to the (user, product) of pair
OtherRows(rows, pair) == rows \ SavedRows(rows, pair[1], pair[2])

\* C24: SavedProductToggleView.post is a toggle.  At no time are there two
\* SavedProduct rows of one (user, product).  A post that is the only one so
\* far ends with one row of its pair and 201 when the pair was not saved, and
\* with no row of its pair and 200 when it was; it takes the delete branch
\* exactly when its lookup finds the row.  No step of a post touches the rows
\* of another pair, and a post for a product that does not exist changes
\* nothing and is answered with 404.
C24_PostToggles ==
    /\ [](\A u \in Users, p \in ProductSet : SavedCount(saved_products, <<u, p>>) <= 1)
    /\ [](\A h \in Handlers :
             (nops = 1 /\ toggle[h].pc = "responded") =>
                 IF PairOf(h)[2] \notin ProductSet
                 THEN toggle[h].status = Some("404 Not Found")
                 ELSE IF toggle[h].created = Some(TRUE)
                 THEN /\ toggle[h].status = Some("201 Created")
                      /\ SavedCount(saved_products, PairOf(h)) = 1
                 ELSE /\ toggle[h].status = Some("200 OK")
                      /\ SavedCount(saved_products, PairOf(h)) = 0)
    /\ [][\A h \in Handlers :
             (toggle[h].pc # "idle" /\ toggle'[h] # toggle[h]) =>
                 /\ OtherRows(saved_products', PairOf(h)) = OtherRows(saved_products, PairOf(h))
                 /\ PairOf(h)[2] \notin ProductSet => saved_products' = saved_products
                 /\ toggle[h].pc = "get" =>
                       /\ (toggle'[h].pc = "delete") = (SavedCount(saved_products, PairOf(h)) = 1)
                       /\ (toggle'[h].pc = "create") = (SavedCount(saved_products, PairOf(h)) = 0)
                 /\ toggle[h].pc = "delete" =>
                       \A r \in saved_products' : r.id # Val(toggle[h].saved_product)]_vars

\* a second post of a handler has just unsaved the product its first post
\* saved, while the other handler, whose INSERT for the same user and product
\* was refused, is about to look the row up again
C24_Witness ==
    \E h, g \in Handlers :
        /\ h # g
        /\ toggle[h].pc = "responded"
        /\ toggle[h].status = Some("200 OK")
        /\ toggle[g].pc = "get_again"
        /\ PairOf(g) = PairOf(h)
        /\ SavedCount(saved_products, PairOf(h)) = 0

====
